---- MODULE Spec2Model ----
(***************************************************************************)
(* Model of full_app_test.py: the sequential verification harness `main`,  *)
(* its fifteen step functions, the run_command helper, the web-server and  *)
(* Expo dev-server steps with the processes they spawn, and the summary.   *)
(*                                                                         *)
(* The environment (file system, exit status of external tools, what is    *)
(* listening on port 8081, what a spawned server does) is drawn with \E.   *)
(***************************************************************************)
EXTENDS Integers, Sequences, FiniteSets

\* ------------------------------------------------------------------------
\* Program constants
\* ------------------------------------------------------------------------

\* max_wait of test_web_server: number of readiness attempts
max_wait == 45

\* range(30) of run_expo_dev_server: number of readline attempts
expo_lines == 30

\* Largest exit status an external tool returns in the model (0 = success)
MaxExitStatus == 1

ExitStatuses == 0..MaxExitStatus

\* The keys of the results dict of main, in insertion order
Steps ==
  << "file_structure", "env_vars", "dependencies", "linting",
     "static_analysis", "type_check", "unit_tests", "coverage", "build",
     "firebase_config", "expo_config", "build_artifacts", "api_endpoints",
     "web_server", "expo_dev" >>

StepNames == { Steps[k] : k \in 1..Len(Steps) }

required_files ==
  { "package.json", "tsconfig.json", "firebase.json", ".env.local", "app.json",
    "src/app/_layout.tsx", "src/store/gameStore.ts", "src/services/aiService.ts",
    "src/types/game.ts" }

critical_deps ==
  { "expo", "react", "react-native", "firebase", "@google/generative-ai", "zustand" }

expected == { "index.html", "manifest.json", "static" }

\* What may hold port 8081: nothing, a foreign node.exe, a foreign process
\* that is not node.exe, or the web server the harness spawned
Holders == { "none", "node", "other", "web" }

VARIABLES
  pc,              \* position of main: the step about to be called, or a
                   \* position inside test_web_server / run_expo_dev_server
  results,         \* the results dict of main
  executed,        \* the step functions invoked so far, in call order
  lastExit,        \* returncode of the last subprocess.run of run_command
  lintExit,        \* returncode of "npm run lint" (-1 before it ran)
  holder,          \* what listens on localhost:8081
  server_process,  \* test_web_server: "none" or "spawned" (the Popen handle)
  wsProcs,         \* alive processes of the tree spawned by test_web_server
  portWasHeld,     \* test_web_server: port 8081 still held after the reclaim
  i,               \* test_web_server: loop variable of the readiness poll
  connects,        \* check_port calls made by the readiness poll
  fails,           \* of those, the calls that returned False
  poll,            \* outcome of the readiness poll: "none", "ready", "timeout"
  u,               \* test_web_server: index of the next HTTP request (1..3)
  warned,          \* test_web_server: some HTTP request printed a warning or
                   \* a failure instead of its success line
  hung,            \* the main flow is blocked in a call that has no timeout
  ret,             \* pending exit of a try block: "none","true","false","raise"
  dev_process,     \* run_expo_dev_server: "none" or "spawned"
  devProcs,        \* alive processes of the tree spawned by run_expo_dev_server
  j,               \* run_expo_dev_server: loop variable of the read loop
  raised,          \* the step out of which an exception propagated, or "none"
  rows,            \* the rows the summary printed
  exitCode         \* the process exit code (-1 while running)

vars ==
  << pc, results, executed, lastExit, lintExit, holder, server_process, wsProcs,
     portWasHeld, i, connects, fails, poll, u, warned, hung, ret, dev_process,
     devProcs, j, raised, rows, exitCode >>

envVars == << holder, wsProcs, devProcs >>
wsLocals == << server_process, portWasHeld, i, connects, fails, poll, u, warned >>
devLocals == << dev_process, j >>
cmdVars == << lastExit, lintExit >>
endVars == << raised, rows, exitCode >>

\* ------------------------------------------------------------------------
\* Helpers
\* ------------------------------------------------------------------------

IndexOf(name) == CHOOSE k \in 1..Len(Steps) : Steps[k] = name

\* The statement of main that follows the call of step `name`
NextPc(name) ==
  IF IndexOf(name) = Len(Steps) THEN "summary" ELSE Steps[IndexOf(name) + 1]

\* results[name] = value; control moves to the next statement of main
Return(name, value) ==
  /\ results' = [results EXCEPT ![name] = value]
  /\ pc' = NextPc(name)
  /\ UNCHANGED endVars

\* An exception leaves the step function: time_step's wrapper and main have
\* no handler, so the interpreter prints the traceback and exits with 1
Raise(name) ==
  /\ pc' = "crashed"
  /\ raised' = name
  /\ exitCode' = 1
  /\ UNCHANGED << results, rows >>

\* time_step's wrapper calls func
Invoke(name) == executed' = Append(executed, name)

\* run_command: subprocess.run raises CalledProcessError iff check is set and
\* the status is non-zero; only then is False returned
run_command(status, ignore_error) ==
  LET check == ~ignore_error
      calledProcessError == check /\ status # 0
  IN  ~calledProcessError

\* check_port: connect_ex succeeds iff something listens on the port
check_port(h) == h # "none"

Init ==
  /\ pc = "file_structure"
  /\ results = [s \in StepNames |-> FALSE]
  /\ executed = << >>
  /\ lastExit = 0
  /\ lintExit = -1
  /\ holder \in { "none", "node", "other" }
  /\ server_process = "none"
  /\ wsProcs = {}
  /\ portWasHeld = FALSE
  /\ i = 0
  /\ connects = 0
  /\ fails = 0
  /\ poll = "none"
  /\ u = 0
  /\ warned = FALSE
  /\ hung = FALSE
  /\ ret = "none"
  /\ dev_process = "none"
  /\ devProcs = {}
  /\ j = 0
  /\ raised = "none"
  /\ rows = << >>
  /\ exitCode = -1

\* ------------------------------------------------------------------------
\* Steps 1-3: file checks
\* ------------------------------------------------------------------------

check_file_structure ==
  /\ pc = "file_structure"
  /\ Invoke("file_structure")
  /\ \E present \in SUBSET required_files :
       LET all_exist == \A f \in required_files : f \in present
       IN  Return("file_structure", all_exist)
  /\ UNCHANGED << cmdVars, envVars, wsLocals, devLocals, hung, ret >>

check_environment_variables ==
  /\ pc = "env_vars"
  /\ Invoke("env_vars")
  /\ \E exists \in BOOLEAN, readable \in BOOLEAN :
       Return("env_vars", exists /\ readable)
  /\ UNCHANGED << cmdVars, envVars, wsLocals, devLocals, hung, ret >>

check_dependencies ==
  /\ pc = "dependencies"
  /\ Invoke("dependencies")
  /\ \E exists \in BOOLEAN, parses \in BOOLEAN, deps \in SUBSET critical_deps :
       LET all_critical == \A dep \in critical_deps : dep \in deps
       IN  Return("dependencies", exists /\ parses /\ all_critical)
  /\ UNCHANGED << cmdVars, envVars, wsLocals, devLocals, hung, ret >>

\* ------------------------------------------------------------------------
\* Steps 4-9: external tools through run_command
\* ------------------------------------------------------------------------

\* One call of run_command by step `name`: the tool exits with `status`; with
\* text=True its output is decoded, and undecodable output raises
\* UnicodeDecodeError, which run_command does not catch
CommandStep(name, status, decodes, value) ==
  /\ Invoke(name)
  /\ lastExit' = status
  /\ IF decodes THEN Return(name, value) ELSE Raise(name)

run_linting ==
  /\ pc = "linting"
  /\ \E status \in ExitStatuses, decodes \in BOOLEAN :
       LET success == run_command(status, TRUE)
       IN  /\ CommandStep("linting", status, decodes, TRUE)
           /\ lintExit' = status
  /\ UNCHANGED << envVars, wsLocals, devLocals, hung, ret >>

run_static_analysis ==
  /\ pc = "static_analysis"
  /\ \E status \in ExitStatuses, decodes \in BOOLEAN :
       LET success == run_command(status, TRUE)
       IN  CommandStep("static_analysis", status, decodes, success)
  /\ UNCHANGED << lintExit, envVars, wsLocals, devLocals, hung, ret >>

run_type_check ==
  /\ pc = "type_check"
  /\ \E status \in ExitStatuses, decodes \in BOOLEAN :
       LET success == run_command(status, TRUE)
       IN  CommandStep("type_check", status, decodes, success)
  /\ UNCHANGED << lintExit, envVars, wsLocals, devLocals, hung, ret >>

run_unit_tests ==
  /\ pc = "unit_tests"
  /\ \E status \in ExitStatuses, decodes \in BOOLEAN :
       LET success == run_command(status, TRUE)
       IN  CommandStep("unit_tests", status, decodes, success)
  /\ UNCHANGED << lintExit, envVars, wsLocals, devLocals, hung, ret >>

run_test_coverage ==
  /\ pc = "coverage"
  /\ \E status \in ExitStatuses, decodes \in BOOLEAN :
       LET success == run_command(status, TRUE)
       IN  CommandStep("coverage", status, decodes, success)
  /\ UNCHANGED << lintExit, envVars, wsLocals, devLocals, hung, ret >>

run_production_build ==
  /\ pc = "build"
  /\ \E status \in ExitStatuses, decodes \in BOOLEAN :
       LET success == run_command(status, FALSE)
       IN  CommandStep("build", status, decodes, success)
  /\ UNCHANGED << lintExit, envVars, wsLocals, devLocals, hung, ret >>

\* ------------------------------------------------------------------------
\* Steps 10-12: configuration files and build artifacts
\* ------------------------------------------------------------------------

check_firebase_config ==
  /\ pc = "firebase_config"
  /\ Invoke("firebase_config")
  /\ \E exists \in BOOLEAN, parses \in BOOLEAN :
       Return("firebase_config", exists /\ parses)
  /\ UNCHANGED << cmdVars, envVars, wsLocals, devLocals, hung, ret >>

check_expo_config ==
  /\ pc = "expo_config"
  /\ Invoke("expo_config")
  /\ \E exists \in BOOLEAN, parses \in BOOLEAN :
       Return("expo_config", exists /\ parses)
  /\ UNCHANGED << cmdVars, envVars, wsLocals, devLocals, hung, ret >>

verify_build_artifacts ==
  /\ pc = "build_artifacts"
  /\ Invoke("build_artifacts")
  /\ \E build_dir \in { "web-build", "dist", "None" }, missing \in SUBSET expected :
       Return("build_artifacts", build_dir # "None" /\ missing = {})
  /\ UNCHANGED << cmdVars, envVars, wsLocals, devLocals, hung, ret >>

\* ------------------------------------------------------------------------
\* Step 13: API endpoint probes (urlopen with timeout=5)
\* ------------------------------------------------------------------------

\* What one GET of localhost:8081 can come to, given what holds the port.
\* "silent" is a peer that accepts the connection and never answers.
Answers(h) ==
  IF check_port(h) THEN { "200", "non200", "error", "silent" } ELSE { "refused" }

\* urlopen(url, timeout=5): a silent peer ends in a timeout exception
WithTimeout(answer) == IF answer = "silent" THEN "error" ELSE answer

check_api_endpoints ==
  /\ pc = "api_endpoints"
  /\ Invoke("api_endpoints")
  /\ \E health \in Answers(holder), version \in Answers(holder) :
       LET all_ok == WithTimeout(health) = "200" /\ WithTimeout(version) = "200"
       IN  Return("api_endpoints", all_ok)
  /\ UNCHANGED << cmdVars, envVars, wsLocals, devLocals, hung, ret >>

\* ------------------------------------------------------------------------
\* Processes and port 8081
\* ------------------------------------------------------------------------

\* taskkill /F /IM node.exe: every node.exe dies; a port held by one is freed
taskkill_image_node(h) == IF h = "node" THEN "none" ELSE h

\* Variant of taskkill_pid: the /T flag is ignored, only the shell dies
taskkill_pid_no_tree(procs, tree) == procs \ { "shell" }

\* taskkill /F [/T] /PID pid, pid being the shell Popen started: with /T the
\* whole tree dies, without it only the shell
taskkill_pid(procs, tree) == IF tree THEN {} ELSE procs \ { "shell" }

\* The port the spawned web server bound is free again once its child is dead
ReleasePort(h, procs) == IF h = "web" /\ "child" \notin procs THEN "none" ELSE h

\* Variant of RangeHasNext: the loop gives up one iteration early
RangeHasNext_short(k, n) == k < n - 1

\* for i in range(n): is there another iteration after k completed ones
RangeHasNext(k, n) == k < n

\* ------------------------------------------------------------------------
\* Step 14: test_web_server, gated by main on results["build"]
\* ------------------------------------------------------------------------

\* Variant of BuildGate: the web-server step is called unconditionally
BuildGate_ungated(res) == TRUE

\* main: if results["build"]
BuildGate(res) == res["build"]

\* main: else branch, the step function is not called and results keeps its
\* initial entry
main_skip_web_server ==
  /\ pc = "web_server"
  /\ ~BuildGate(results)
  /\ pc' = NextPc("web_server")
  /\ UNCHANGED << results, executed, cmdVars, envVars, wsLocals, devLocals,
                  hung, ret, endVars >>

\* test_web_server up to the try: the port check, the reclaim, the Popen.
\* check_port and Popen may raise OSError; nothing here catches it.
test_web_server_start ==
  /\ pc = "web_server"
  /\ BuildGate(results)
  /\ Invoke("web_server")
  /\ \E portError \in BOOLEAN, popenError \in BOOLEAN :
       LET reclaimed == IF check_port(holder)
                        THEN taskkill_image_node(holder) ELSE holder
       IN  IF portError
           THEN /\ Raise("web_server")
                /\ UNCHANGED << holder, wsProcs, wsLocals >>
           ELSE IF popenError
           THEN /\ Raise("web_server")
                /\ holder' = reclaimed
                /\ UNCHANGED << wsProcs, wsLocals >>
           ELSE /\ holder' = reclaimed
                /\ server_process' = "spawned"
                /\ wsProcs' = { "shell" }
                /\ portWasHeld' = check_port(reclaimed)
                /\ pc' = "ws_poll"
                /\ UNCHANGED << results, endVars, i, connects, fails, poll, u, warned >>
  /\ UNCHANGED << cmdVars, devProcs, devLocals, hung, ret >>

\* One iteration of the readiness loop (i counts the completed iterations);
\* the loop's else clause follows the last failed one
test_web_server_poll ==
  /\ pc = "ws_poll"
  /\ RangeHasNext(i, max_wait)
  /\ connects' = connects + 1
  /\ \E portError \in BOOLEAN :
       IF portError
       THEN /\ ret' = "raise"
            /\ pc' = "ws_finally"
            /\ UNCHANGED << i, fails, poll, u >>
       ELSE IF check_port(holder)
       THEN /\ poll' = "ready"
            /\ pc' = "ws_probe"
            /\ u' = 1
            /\ UNCHANGED << i, fails, ret >>
       ELSE /\ i' = i + 1
            /\ fails' = fails + 1
            /\ IF RangeHasNext(i + 1, max_wait)
               THEN UNCHANGED << pc, poll, ret >>
               ELSE /\ poll' = "timeout"
                    /\ ret' = "false"
                    /\ pc' = "ws_finally"
            /\ u' = u
  /\ UNCHANGED << results, executed, cmdVars, envVars, server_process,
                  portWasHeld, warned, devLocals, hung, endVars >>

\* Request u of test_web_server printed its success line: status 200 for the
\* root and manifest requests, the root div in the document for the DOM check
Succeeded(req, answer, root_div) ==
  /\ answer = "200"
  /\ req = 3 => root_div

\* Variant of AfterRequest: a request that did not succeed fails the step
AfterRequest_strict ==
  IF u < 3
  THEN /\ u' = u + 1
       /\ UNCHANGED << pc, ret >>
  ELSE /\ ret' = IF warned' THEN "false" ELSE "true"
       /\ pc' = "ws_finally"
       /\ u' = u

\* After request u of test_web_server (1, 2: the status checks; 3: the DOM
\* check): every outcome is printed only
AfterRequest ==
  IF u < 3
  THEN /\ u' = u + 1
       /\ UNCHANGED << pc, ret >>
  ELSE /\ ret' = "true"
       /\ pc' = "ws_finally"
       /\ u' = u

\* urlopen(u) without a timeout: a silent peer blocks the call
test_web_server_request ==
  /\ pc = "ws_probe"
  /\ ~hung
  /\ \E answer \in Answers(holder), root_div \in BOOLEAN :
       IF answer = "silent"
       THEN /\ hung' = TRUE
            /\ UNCHANGED << pc, u, ret, warned >>
       ELSE /\ warned' = (warned \/ ~Succeeded(u, answer, root_div))
            /\ AfterRequest
            /\ hung' = hung
  /\ UNCHANGED << results, executed, cmdVars, envVars, server_process,
                  portWasHeld, i, connects, fails, poll, devLocals, endVars >>

\* The blocked urlopen fails once its peer is gone; the except clause
\* prints the failure
test_web_server_disconnected ==
  /\ pc = "ws_probe"
  /\ hung
  /\ ~check_port(holder)
  /\ hung' = FALSE
  /\ warned' = TRUE
  /\ AfterRequest
  /\ UNCHANGED << results, executed, cmdVars, envVars, server_process,
                  portWasHeld, i, connects, fails, poll, devLocals, endVars >>

\* finally: taskkill /F /T /PID server_process.pid, then the pending return
\* or re-raise; the locals of the call are gone
test_web_server_finally ==
  /\ pc = "ws_finally"
  /\ wsProcs' = taskkill_pid(wsProcs, TRUE)
  /\ holder' = ReleasePort(holder, wsProcs')
  /\ IF ret = "raise"
     THEN Raise("web_server")
     ELSE Return("web_server", ret = "true")
  /\ ret' = "none"
  /\ i' = 0 /\ connects' = 0 /\ fails' = 0 /\ poll' = "none" /\ u' = 0
  /\ warned' = FALSE
  /\ UNCHANGED << executed, cmdVars, server_process, portWasHeld, devProcs,
                  devLocals, hung >>

\* The spawned tree: the shell starts the server, the server binds the port
\* if it is free, the tree may end by itself
server_starts ==
  /\ wsProcs = { "shell" }
  /\ wsProcs' = { "shell", "child" }
  /\ UNCHANGED << pc, results, executed, cmdVars, holder, devProcs, wsLocals,
                  devLocals, hung, ret, endVars >>

server_listens ==
  /\ "child" \in wsProcs
  /\ holder = "none"
  /\ holder' = "web"
  /\ UNCHANGED << pc, results, executed, cmdVars, wsProcs, devProcs, wsLocals,
                  devLocals, hung, ret, endVars >>

server_exits ==
  /\ wsProcs # {}
  /\ wsProcs' = {}
  /\ holder' = ReleasePort(holder, wsProcs')
  /\ UNCHANGED << pc, results, executed, cmdVars, devProcs, wsLocals,
                  devLocals, hung, ret, endVars >>

\* ------------------------------------------------------------------------
\* Step 15: run_expo_dev_server
\* ------------------------------------------------------------------------

\* What dev_process.stdout.readline() can come to: a line with a startup
\* marker, another line, bytes that are not UTF-8, end of file once every
\* writer is dead, or nothing at all while the tree lives and stays quiet
Lines(procs) ==
  IF procs = {}
  THEN { "marker", "line", "undecodable", "eof" }
  ELSE { "marker", "line", "undecodable", "nothing" }

run_expo_dev_server_start ==
  /\ pc = "expo_dev"
  /\ Invoke("expo_dev")
  /\ \E popenError \in BOOLEAN :
       IF popenError
       THEN /\ Raise("expo_dev")
            /\ UNCHANGED << devProcs, dev_process >>
       ELSE /\ dev_process' = "spawned"
            /\ devProcs' = { "shell" }
            /\ pc' = "expo_read"
            /\ UNCHANGED << results, endVars >>
  /\ UNCHANGED << cmdVars, holder, wsProcs, wsLocals, j, hung, ret >>

\* After a line without a marker: sleep, next iteration or the else clause
AfterLine ==
  /\ j' = j + 1
  /\ IF RangeHasNext(j + 1, expo_lines)
     THEN UNCHANGED << pc, ret >>
     ELSE /\ ret' = "true"
          /\ pc' = "expo_finally"

\* One iteration of the read loop (j counts the completed iterations);
\* readline has no timeout
run_expo_dev_server_read ==
  /\ pc = "expo_read"
  /\ ~hung
  /\ RangeHasNext(j, expo_lines)
  /\ \E line \in Lines(devProcs) :
       IF line = "nothing"
       THEN /\ hung' = TRUE
            /\ UNCHANGED << pc, j, ret >>
       ELSE /\ hung' = hung
            /\ IF line = "undecodable"
               THEN /\ ret' = "raise"
                    /\ pc' = "expo_finally"
                    /\ j' = j
               ELSE IF line = "marker"
               THEN /\ ret' = "true"
                    /\ pc' = "expo_finally"
                    /\ j' = j
               ELSE AfterLine
  /\ UNCHANGED << results, executed, cmdVars, envVars, wsLocals, dev_process,
                  endVars >>

\* The blocked readline returns the empty string once every writer is dead
run_expo_dev_server_eof ==
  /\ pc = "expo_read"
  /\ hung
  /\ devProcs = {}
  /\ hung' = FALSE
  /\ AfterLine
  /\ UNCHANGED << results, executed, cmdVars, envVars, wsLocals, dev_process,
                  endVars >>

\* finally: taskkill /F /T /PID dev_process.pid, then return True or re-raise
run_expo_dev_server_finally ==
  /\ pc = "expo_finally"
  /\ devProcs' = taskkill_pid(devProcs, TRUE)
  /\ IF ret = "raise"
     THEN Raise("expo_dev")
     ELSE Return("expo_dev", TRUE)
  /\ ret' = "none"
  /\ j' = 0
  /\ UNCHANGED << executed, cmdVars, holder, wsProcs, wsLocals, dev_process,
                  hung >>

dev_server_starts ==
  /\ devProcs = { "shell" }
  /\ devProcs' = { "shell", "child" }
  /\ UNCHANGED << pc, results, executed, cmdVars, holder, wsProcs, wsLocals,
                  devLocals, hung, ret, endVars >>

dev_server_exits ==
  /\ devProcs # {}
  /\ devProcs' = {}
  /\ UNCHANGED << pc, results, executed, cmdVars, holder, wsProcs, wsLocals,
                  devLocals, hung, ret, endVars >>

\* ------------------------------------------------------------------------
\* Summary and exit
\* ------------------------------------------------------------------------

\* Variant of all_passed_after: the api-endpoints entry is ignored like linting
all_passed_after_lenient(res, k) ==
  \A m \in 1..k : res[Steps[m]] \/ Steps[m] \in { "linting", "api_endpoints" }

\* The loop over results.items(): all_passed after the first k entries
RECURSIVE all_passed_after(_, _)
all_passed_after(res, k) ==
  IF k = 0
  THEN TRUE
  ELSE LET name == Steps[k]
           ok == res[name]
       IN  IF ~ok /\ name # "linting"
           THEN FALSE
           ELSE all_passed_after(res, k - 1)

all_passed(res) == all_passed_after(res, Len(Steps))

\* Variant of summary_rows: the last entry is not printed
summary_rows_short(res) ==
  [ k \in 1..(Len(Steps) - 1) |->
      << Steps[k], IF res[Steps[k]] THEN "PASS" ELSE "FAIL" >> ]

\* status = "PASS" if ok else "FAIL", one row per entry in insertion order
summary_rows(res) ==
  [ k \in 1..Len(Steps) |->
      << Steps[k], IF res[Steps[k]] THEN "PASS" ELSE "FAIL" >> ]

\* Variant of exit_code: both branches of the summary exit with 0
exit_code_always_zero(passed) == 0

\* sys.exit(0) if all_passed else sys.exit(1)
exit_code(passed) == IF passed THEN 0 ELSE 1

main_summary ==
  /\ pc = "summary"
  /\ rows' = summary_rows(results)
  /\ exitCode' = exit_code(all_passed(results))
  /\ pc' = "exited"
  /\ UNCHANGED << results, executed, cmdVars, envVars, wsLocals, devLocals,
                  hung, ret, raised >>

\* ------------------------------------------------------------------------
\* Specification
\* ------------------------------------------------------------------------

\* The statements of the harness
MainNext ==
  \/ check_file_structure
  \/ check_environment_variables
  \/ check_dependencies
  \/ run_linting
  \/ run_static_analysis
  \/ run_type_check
  \/ run_unit_tests
  \/ run_test_coverage
  \/ run_production_build
  \/ check_firebase_config
  \/ check_expo_config
  \/ verify_build_artifacts
  \/ check_api_endpoints
  \/ main_skip_web_server
  \/ test_web_server_start
  \/ test_web_server_poll
  \/ test_web_server_request
  \/ test_web_server_disconnected
  \/ test_web_server_finally
  \/ run_expo_dev_server_start
  \/ run_expo_dev_server_read
  \/ run_expo_dev_server_eof
  \/ run_expo_dev_server_finally
  \/ main_summary

\* The processes the harness spawned
EnvNext ==
  \/ server_starts
  \/ server_listens
  \/ server_exits
  \/ dev_server_starts
  \/ dev_server_exits

Next == MainNext \/ EnvNext

Spec == Init /\ [][Next]_vars

\* The interpreter always executes the next statement of the harness when
\* there is one it can execute; the spawned processes owe nothing
FairSpec == Spec /\ WF_vars(MainNext)

TypeOK ==
  /\ pc \in StepNames \cup { "ws_poll", "ws_probe", "ws_finally", "expo_read",
                             "expo_finally", "summary", "exited", "crashed" }
  /\ results \in [StepNames -> BOOLEAN]
  /\ lastExit \in ExitStatuses
  /\ lintExit \in ExitStatuses \cup { -1 }
  /\ holder \in Holders
  /\ wsProcs \subseteq { "shell", "child" }
  /\ devProcs \subseteq { "shell", "child" }
  /\ i \in 0..max_wait /\ connects \in 0..max_wait /\ fails \in 0..max_wait
  /\ j \in 0..expo_lines
  /\ u \in 0..3
  /\ warned \in BOOLEAN
  /\ exitCode \in { -1, 0, 1 }

\* ------------------------------------------------------------------------
\* Properties
\* ------------------------------------------------------------------------

\* The step function of `name` has been called
Ran(name) == \E k \in 1..Len(executed) : executed[k] = name

\* The build step returned False
BuildFailed == Ran("build") /\ raised # "build" /\ ~results["build"]

NonIgnorable == StepNames \ { "linting" }

ToolSteps == { "static_analysis", "type_check", "unit_tests", "coverage", "build" }

InWebServer == pc \in { "ws_poll", "ws_probe", "ws_finally" }

\* C1: in a run that reached the summary, the exit code is 0 if and only if
\* every step other than linting has a true entry in results, and 1 otherwise
C1_ExitCodeIffNonIgnorablePass ==
  pc = "exited" =>
    /\ exitCode \in { 0, 1 }
    /\ exitCode = 0 <=> \A name \in NonIgnorable : results[name]
    /\ exitCode = 0 <=>
         \A k \in 1..Len(rows) : rows[k][1] # "linting" => rows[k][2] = "PASS"

\* C1 witness: the lint tool failed and the run still exited with 0
C1_Witness ==
  /\ pc = "exited"
  /\ exitCode = 0
  /\ lintExit = 1

\* C2: once a tool step (static_analysis, type_check, unit_tests, coverage,
\* build) has returned and its tool exited with a non-zero status, the step's
\* entry in results is False
C2_NonZeroExitFailsStep ==
  \A name \in ToolSteps :
    (pc = NextPc(name) /\ lastExit # 0) => results[name] = FALSE

\* C3: when the build step returned False, test_web_server is never called
\* and no server process is spawned for it
C3_GatedBodyNeverInvoked ==
  BuildFailed =>
    /\ ~Ran("web_server")
    /\ server_process = "none"
    /\ wsProcs = {}

\* C3 witness: the run went past the gate with a failed build
C3_Witness ==
  /\ BuildFailed
  /\ pc \in { "expo_dev", "expo_read", "expo_finally", "summary", "exited" }
  /\ ~Ran("web_server")

\* C4: when the build step returned False, the summary row of the web-server
\* step reads Skipped, an outcome distinct from Fail
C4_GatedRowIsSkipped ==
  (pc = "exited" /\ BuildFailed) =>
    /\ rows[IndexOf("web_server")][2] = "SKIPPED"
    /\ rows[IndexOf("web_server")][2] # "FAIL"

\* C5: a failure raised inside a step body never leaves the step runner: the
\* step gets a Fail entry and the run goes on to the summary and exit code
C5_FailureBecomesFailOutcome ==
  raised # "none" =>
    /\ pc # "crashed"
    /\ results[raised] = FALSE

\* C6: once test_web_server has been left after the spawn, by return or by
\* an exception, no process of the tree it spawned is alive and the port is
\* not held by it
C6_ServerDeadAfterStep ==
  (server_process = "spawned" /\ ~InWebServer) =>
    /\ wsProcs = {}
    /\ holder # "web"

\* C6 witness: an exception left the try block after the spawn and the tree
\* is dead
C6_Witness ==
  /\ server_process = "spawned"
  /\ pc = "crashed"
  /\ raised = "web_server"
  /\ wsProcs = {}

\* The registered steps without the gated one, in registration order
RECURSIVE Without(_, _)
Without(seq, name) ==
  IF seq = << >>
  THEN << >>
  ELSE IF seq[1] = name
  THEN Without(Tail(seq), name)
  ELSE << seq[1] >> \o Without(Tail(seq), name)

\* C7: in every run each of the 14 steps other than web_server is executed
\* exactly once, in registration order
C7_OtherStepsRunExactlyOnce ==
  pc \in { "exited", "crashed" } =>
    Without(executed, "web_server") = Without(Steps, "web_server")

\* C8: when port 8081 is still held by a foreign process after the reclaim,
\* the step does not spawn the server and return True with the port still
\* held by that process
C8_OccupiedPortFailsLoudly ==
  portWasHeld =>
    ~ /\ server_process = "spawned"
      /\ ~InWebServer
      /\ raised # "web_server"
      /\ results["web_server"] = TRUE
      /\ holder \in { "node", "other" }

\* C9: every run of main ends (here even counting an uncaught exception as
\* an end): no wait of the harness is unbounded
C9_EveryRunEnds == <>(pc \in { "exited", "crashed" })

\* C10: the readiness poll reports ready at its first successful connect
\* and makes no attempt after it; it reports not-ready only after exactly
\* max_wait failed attempts; a port open at the first attempt is ready on
\* attempt 1
C10_PollInvariant ==
  /\ connects <= max_wait
  /\ (pc = "ws_poll" /\ poll = "none") => connects = fails /\ fails = i
  /\ poll = "ready" => connects = fails + 1
  /\ poll = "timeout" => fails = max_wait /\ connects = max_wait
  /\ (pc = "ws_finally" /\ ret = "false") => poll = "timeout"
  /\ (pc = "ws_finally" /\ ret = "true") => poll = "ready"

C10_PollStep ==
  /\ (pc = "ws_poll" /\ pc' = "ws_probe") =>
       check_port(holder) /\ poll' = "ready" /\ connects' = connects + 1
  /\ (pc = "ws_poll" /\ check_port(holder) /\ connects' # connects
        /\ ret' # "raise") => poll' = "ready"
  /\ (pc = "ws_poll" /\ connects = 0 /\ check_port(holder) /\ poll' = "ready")
       => connects' = 1
  /\ poll \in { "ready", "timeout" } =>
       connects' = connects \/ pc' \notin { "ws_poll", "ws_probe", "ws_finally" }

C10_ReadinessPoll == [] C10_PollInvariant /\ [][C10_PollStep]_vars

\* C10 witness: the poll gave up after max_wait failed attempts
C10_Witness ==
  /\ pc = "ws_finally"
  /\ poll = "timeout"
  /\ fails = max_wait

\* C11: a refused, failed or non-200 best-effort probe is only a warning: the
\* api-endpoints step does not fail when nothing answers on port 8081, the
\* web-server step returns True whatever its HTTP requests gave, and a run
\* whose other non-ignorable steps all passed exits with 0
C11_ProbeFailureIsWarning ==
  /\ (pc = "web_server" /\ ~check_port(holder)) => results["api_endpoints"] = TRUE
  /\ (pc = "ws_finally" /\ warned /\ ret # "raise") => ret = "true"
  /\ (pc = "exited" /\ \A name \in NonIgnorable \ { "api_endpoints" } : results[name])
       => exitCode = 0

\* C12: at the summary the result set has one entry per registered step (15,
\* no duplicate), the gated-out web-server step included; the rows are those
\* entries in registration order, and the steps were called in that order
C12_OneEntryPerStep ==
  pc = "exited" =>
    /\ Cardinality(DOMAIN results) = 15
    /\ Len(rows) = 15
    /\ \A k \in 1..Len(rows) : rows[k][1] = Steps[k]
    /\ \A k, m \in 1..Len(rows) : rows[k][1] = rows[m][1] => k = m
    /\ \A name \in DOMAIN results : \E k \in 1..Len(rows) :
         /\ rows[k][1] = name
         /\ rows[k][2] = "PASS" <=> results[name]
    /\ Without(executed, "web_server") = Without(Steps, "web_server")
    /\ Ran("web_server") => executed = Steps

\* C12 witness: a summary printed after the web-server step was gated out
C12_Witness ==
  /\ pc = "exited"
  /\ ~Ran("web_server")
  /\ Len(rows) = 15
  /\ rows[IndexOf("web_server")][1] = "web_server"

\* C13: the build step's run_command (ignore_error=False) never raises to
\* its caller when the command exits non-zero: the call returns, with
\* ok = False for a non-zero status and ok = True for status 0
C13_FailFastReturnsStructured ==
  [][ /\ (pc = "build" /\ pc' # "build" /\ lastExit' # 0) =>
           (pc' = NextPc("build") /\ results'["build"] = FALSE)
      /\ (pc = "build" /\ pc' = NextPc("build") /\ lastExit' = 0) =>
           results'["build"] = TRUE ]_vars

\* C14: at most one server tree spawned by the harness is alive at any time:
\* the web server's tree is dead before the Expo dev server is spawned, and
\* the Expo tree is dead once run_expo_dev_server has been left, by return
\* or by an exception, hence before the summary
C14_OneServerAtATime ==
  /\ ~(wsProcs # {} /\ devProcs # {})
  /\ dev_process = "spawned" => wsProcs = {}
  /\ (dev_process = "spawned" /\ pc \notin { "expo_read", "expo_finally" })
       => devProcs = {}
  /\ pc \in { "summary", "exited" } => wsProcs = {} /\ devProcs = {}

\* C14 witness: the Expo dev server runs after a web server that was
\* spawned and killed
C14_Witness ==
  /\ pc = "expo_read"
  /\ server_process = "spawned"
  /\ wsProcs = {}
  /\ "child" \in devProcs

\* C15: when test_web_server returns, it returns True if and only if the
\* readiness poll connected within its attempts; what the later HTTP
\* requests gave does not enter the result
C15_ReturnInvariant ==
  (pc = "ws_finally" /\ ret # "raise") =>
    /\ ret = "true" <=> poll = "ready"
    /\ ret = "false" <=> poll = "timeout"

C15_ReturnStep ==
  (pc = "ws_finally" /\ pc' = NextPc("web_server")) =>
    results'["web_server"] = (poll = "ready")

C15_OutcomeIsReadiness == [] C15_ReturnInvariant /\ [][C15_ReturnStep]_vars

\* C15 witness: a request printed a warning and the step still returns True
C15_Witness ==
  /\ pc = "ws_finally"
  /\ warned
  /\ ret = "true"
  /\ poll = "ready"

\* C16: the exit code is 0 only when the api-endpoints step returned True,
\* which it cannot do when nothing listens on port 8081; that step runs
\* before the harness spawns anything, so a run that starts with nothing
\* listening on the port ends with exit code 1
C16_ApiInvariant ==
  /\ exitCode = 0 => pc = "exited" /\ results["api_endpoints"]
  /\ pc \in { "exited", "crashed" } /\ ~results["api_endpoints"] => exitCode = 1
  /\ results["api_endpoints"] => Ran("api_endpoints")
  /\ (~Ran("web_server") /\ ~Ran("expo_dev")) =>
       server_process = "none" /\ dev_process = "none" /\ holder # "web"
  /\ \A k, m \in 1..Len(executed) :
       (executed[k] = "api_endpoints" /\ executed[m] \in { "web_server", "expo_dev" })
         => k < m

C16_ApiStep ==
  /\ (pc = "api_endpoints" /\ ~check_port(holder)) => ~results'["api_endpoints"]
  /\ pc # "api_endpoints" => results'["api_endpoints"] = results["api_endpoints"]
  /\ (~check_port(holder) /\ server_process = "none") =>
       (~check_port(holder') \/ server_process' = "spawned")

====
